---- MODULE Spec2Model ----
(***************************************************************************)
(* Model of the streaming transcript aggregation of                        *)
(* src/src/transcription/teams_multilingual_transcriber.py                 *)
(* (class TeamsMultilingualTranscriber): one transcriber instance, the     *)
(* wall clock it reads with datetime.now(UTC), and the recognition events  *)
(* the speech recognizer delivers to its _on_recognized handler.           *)
(*                                                                         *)
(* Also modelled: the tasks asyncio.create_task queues for the instance's  *)
(* callback, WorkingTranscriber (working_transcriber.py), the              *)
(* TeamsTranscriptionBot (src/src/bot/teams_bot.py) that constructs a      *)
(* transcriber for each call, MSALAuthClient.get_token                     *)
(* (src/src/auth/msal_client.py), and the storage and transcript services  *)
(* of the API (src/src/api/services) over a blob container.                *)
(*                                                                         *)
(* Time is counted in whole seconds since the instance was constructed.    *)
(***************************************************************************)
EXTENDS Integers, Sequences, FiniteSets, TLC

----------------------------------------------------------------------------
(* Bounds of the model *)

\* no more than MaxSegments segments are stored in one run of the model
MaxSegments == 3

\* no more than MaxThreadSegments segments are stored in one run of the
\* statement-by-statement model
MaxThreadSegments == 2

\* no more than MaxNotifySegments segments are stored by an instance that
\* has a callback
MaxNotifySegments == 2

\* no more than MaxBotSegments segments are stored by an instance that the
\* bot constructed
MaxBotSegments == 1

----------------------------------------------------------------------------
(* Program constants *)

\* "(current_time.timestamp() - self.last_speech_time) > 3"
GapThreshold == 3

\* "int(evt.result.duration / 10000)": SDK ticks (100 ns) per millisecond
TicksPerMs == 10000

\* "confidence": 0.95, written here in hundredths
Confidence == 95

----------------------------------------------------------------------------
(* Inputs *)

\* the instants (seconds) at which the wall clock is read: they give gaps
\* of 0, 1, 3 (the threshold), 4 and 5 seconds
Instants == {0, 1, 4, 5}

\* evt.result.text of recognized speech, as sequences of characters
SpokenTexts == { <<" ", "h", "i", " ">> }

\* evt.result.text of a result that carries no words
BlankTexts == { <<>>, <<" ", "\t">> }

\* value of the AutoDetectSourceLanguageResult property ("None": absent)
LangResults == {"None", "es-ES", "de-DE"}

\* seconds between the instant an utterance was finalized (the event's own
\* time, evt.result.offset) and the instant its callback runs
Delays == {0, 1}

\* evt.result.duration in ticks
Durations == {15000}

\* evt.result.offset, in ticks, of an utterance finalized at second t
OffsetOf(t) == t * 1000 * TicksPerMs

\* the event's own time in seconds (when the utterance was finalized)
EventTime(evt) == evt.offset \div (1000 * TicksPerMs)

\* the events the recognizer can deliver when the wall clock reads t:
\* recognized speech in every language and with every delay, recognized
\* results without words, and a NoMatch result (whose text is empty)
Events(t) ==
    [reason : {"RecognizedSpeech"}, text : SpokenTexts, lang : LangResults,
     offset : {OffsetOf(t - d) : d \in {x \in Delays : x <= t}},
     duration : Durations]
    \cup
    [reason : {"RecognizedSpeech"}, text : BlankTexts, lang : {"None"},
     offset : {OffsetOf(t)}, duration : Durations]
    \cup
    [reason : {"NoMatch"}, text : {<<>>}, lang : {"None"},
     offset : {OffsetOf(t)}, duration : {0}]

----------------------------------------------------------------------------
(* State *)

VARIABLES
    now,                  \* the wall clock, datetime.now(UTC)
    recognizer,           \* self.recognizer: "None" or "SpeechRecognizer"
    is_transcribing,      \* self.is_transcribing
    segment_counter,      \* self.segment_counter
    speaker_counter,      \* self.speaker_counter
    last_speech_time,     \* self.last_speech_time: NoTime or seconds
    transcript_segments,  \* self.transcript_segments
    audio_recording,      \* self.audio_recording
    recording_active,     \* self.recording_active
    last_call,            \* the last call made on the instance: its name,
                          \* self.is_transcribing when it was made, and what
                          \* it returned or raised
    stopped_once,         \* history: a stop_transcription call has returned
                          \* a summary on this instance
    delivered,            \* history of the events delivered so far: "none",
                          \* "blank" (only events whose text is empty or
                          \* whitespace) or "spoken"
    cb_frame,             \* the _on_recognized call running on the
                          \* recognizer's thread: its position and locals
    stop_frame,           \* the stop_transcription call running on the
                          \* event loop's thread: its position and locals
    on_transcription_callback,
                          \* self.on_transcription_callback: "None" or the
                          \* coroutine function given to the constructor
    tasks,                \* the event loop's queue of the tasks made by
                          \* asyncio.create_task and not yet run: the
                          \* segment each was made for
    transcript_entries,   \* what the callback stored: the bot's
                          \* self.transcript_entries
    task_exceptions,      \* the segment_ids of the tasks that ended with
                          \* an exception of the callback
    working_recognizer,   \* WorkingTranscriber: self.recognizer
    working_is_transcribing,
                          \* WorkingTranscriber: self.is_transcribing
    working_transcript_entries,
                          \* WorkingTranscriber: self.transcript_entries
    working_speaker_counter,
                          \* WorkingTranscriber: self.speaker_counter
    working_last_speech_time,
                          \* WorkingTranscriber: self.last_speech_time
    working_last_call,    \* the last call made on the WorkingTranscriber
                          \* and what it returned
    session_id,           \* self.session_id
    session_start,        \* self.session_start: seconds
    active_call,          \* TeamsTranscriptionBot: self.active_call
    transcriber,          \* TeamsTranscriptionBot: self.transcriber, "None"
                          \* or the instance the other variables describe
    graph_token,          \* TeamsTranscriptionBot: self.graph_token
    reply,                \* the last message sent with send_activity
    session_ids,          \* history: the session_id of every transcriber
                          \* the bot constructed, in order
    files,                \* the transcript files on disk: for each prefix
                          \* written, the data last written under it
    working_running,      \* WorkingTranscriber, history: the number of
                          \* recognizers on which start_continuous_recognition
                          \* was called and stop_continuous_recognition was
                          \* not
    token_cache,          \* MSALAuthClient: self._token_cache
    app_calls,            \* the calls made on self.app (the msal
                          \* ConfidentialClientApplication), in order
    get_token_result,     \* the last get_token call: the result the cache
                          \* lookup gave it, the calls it made on self.app,
                          \* and what it returned or raised
    blobs,                \* the container in Azure Blob Storage: the blobs
                          \* by name, with their data and metadata
    utc_date,             \* the calendar date datetime.utcnow() falls on
    storage_last_call,    \* the last call made on the storage service or
                          \* on the transcript service and what it returned
    stored_json           \* history: the content last stored in JSON format
                          \* by store_transcript since the last
                          \* delete_transcript, or None

vars == <<now, recognizer, is_transcribing,
          segment_counter, speaker_counter, last_speech_time,
          transcript_segments, audio_recording, recording_active,
          last_call, stopped_once, delivered, cb_frame, stop_frame,
          on_transcription_callback, tasks, transcript_entries,
          task_exceptions,
          working_recognizer, working_is_transcribing,
          working_transcript_entries, working_speaker_counter,
          working_last_speech_time, working_last_call,
          session_id, session_start,
          active_call, transcriber, graph_token, reply, session_ids, files,
          working_running,
          token_cache, app_calls, get_token_result,
          blobs, utc_date, storage_last_call, stored_json>>

\* the two threads' frames
frames == <<cb_frame, stop_frame>>

\* the callback of the instance, the tasks made for it and what they did
notify == <<on_transcription_callback, tasks, transcript_entries,
            task_exceptions>>

\* the state of a WorkingTranscriber instance (working_transcriber.py)
working == <<working_recognizer, working_is_transcribing,
             working_transcript_entries, working_speaker_counter,
             working_last_speech_time, working_last_call, working_running>>

\* the state of the TeamsMultilingualTranscriber instance, its threads and
\* its callback
teams == <<recognizer, is_transcribing, segment_counter, speaker_counter,
           last_speech_time, transcript_segments, audio_recording,
           recording_active, last_call, stopped_once, delivered,
           cb_frame, stop_frame, on_transcription_callback, tasks,
           transcript_entries, task_exceptions, session_id, session_start>>

\* the identity of the TeamsMultilingualTranscriber instance
identity == <<session_id, session_start>>

\* the state of the TeamsTranscriptionBot and of the disk
bot == <<active_call, transcriber, graph_token, reply, session_ids, files>>

\* the state of the MSALAuthClient instance (src/src/auth/msal_client.py)
auth == <<token_cache, app_calls, get_token_result>>

\* the state of the blob container and of the services of the API
\* (src/src/api/services)
storage == <<blobs, utc_date, storage_last_call, stored_json>>

\* the state of the services the transcribers do not touch
services == <<auth, storage>>

\* the state outside the TeamsMultilingualTranscriber and its callback
rest == <<identity, working, bot, services>>

\* a thread that is not inside a call
IdleFrame == [pc |-> "idle"]

\* the diarization and segment state of the session
session == <<segment_counter, speaker_counter, last_speech_time,
             transcript_segments>>

\* self.last_speech_time = None
NoTime == -1

----------------------------------------------------------------------------
(* Pure helpers *)

\* str.strip()
Whitespace == {" ", "\t", "\n"}

RECURSIVE LStrip(_)
LStrip(s) ==
    IF s = <<>> \/ Head(s) \notin Whitespace THEN s ELSE LStrip(Tail(s))

RECURSIVE RStrip(_)
RStrip(s) ==
    IF s = <<>> \/ s[Len(s)] \notin Whitespace
    THEN s
    ELSE RStrip(SubSeq(s, 1, Len(s) - 1))

Strip(s) == RStrip(LStrip(s))

\* f"Speaker_{self.speaker_counter}"
SpeakerId(n) == <<"Speaker_", n>>

\* f"teams_multilingual_{datetime.now(UTC).strftime('%Y%m%d_%H%M%S')}" at
\* instant t: the date and time of day to the second
SessionId(t) == <<"teams_multilingual_", t>>

\* datetime.isoformat() of the instant t
IsoFormat(t) == <<"iso", t>>

\* detected_language of an event: "unknown" unless the property is set
DetectedLanguage(evt) ==
    IF evt.lang = "None" THEN "unknown" ELSE evt.lang

\* the test "evt.result.reason == RecognizedSpeech" and "if text:" without
\* the strip()
Accepted_NoStrip(evt) == evt.reason = "RecognizedSpeech" /\ evt.text # <<>>

\* whether _on_recognized accepts the event
Accepted(evt) == evt.reason = "RecognizedSpeech" /\ Strip(evt.text) # <<>>

\* the "new speaker" test with >= for >
IsNewSpeaker_AtThreshold(last, t) ==
    last = NoTime \/ (t - last) >= GapThreshold

\* the "new speaker" test of _on_recognized at instant t
IsNewSpeaker(last, t) == last = NoTime \/ (t - last) > GapThreshold

\* Python values
PyNone == [type |-> "None"]
EmptyDict == [type |-> "dict", empty |-> TRUE]

\* the result of a call: what it returned, or the exception it raised
Returned(op, value) ==
    [op |-> op, running |-> is_transcribing, raised |-> "none",
     value |-> value]
Raised(op, exc) ==
    [op |-> op, running |-> is_transcribing, raised |-> exc,
     value |-> PyNone]

\* the languages of the segments without "unknown"
LanguagesDetected_KnownOnly(segments) ==
    {segments[i].detected_language : i \in 1..Len(segments)} \ {"unknown"}

\* list(set([seg.get("detected_language", "unknown") for seg in segments])):
\* the distinct values, as a set since the order of the list is arbitrary
LanguagesDetected(segments) ==
    {segments[i].detected_language : i \in 1..Len(segments)}

\* the session_summary dict: its "segments" is the list itself, and
\* "languages_detected" is computed from the list when the dict is built
SummaryDict(end_time, total_segments, total_speakers) ==
    [type |-> "dict", empty |-> FALSE,
     session_id |-> session_id,
     start_time |-> IsoFormat(session_start),
     end_time |-> IsoFormat(end_time),
     total_segments |-> total_segments,
     total_speakers |-> total_speakers,
     languages_detected |-> LanguagesDetected(transcript_segments),
     segments |-> transcript_segments]

\* a summary whose total_speakers counts the segments
SessionSummary_SpeakersFromSegments(t) ==
    SummaryDict(t, Len(transcript_segments), Len(transcript_segments))

\* the session_summary dict of stop_transcription, built at instant t
SessionSummary(t) ==
    SummaryDict(t, Len(transcript_segments), speaker_counter)

----------------------------------------------------------------------------
(* Construction *)

\* "import pyaudio" failed: the instance does no audio recording
PYAUDIO_AVAILABLE == FALSE

\* __init__(on_transcription_callback=callback), at instant 0, in a process
\* where "import pyaudio" succeeded or failed as pyaudio_available tells
ConstructedWith(callback, pyaudio_available) ==
    /\ now = 0
    /\ recognizer = "None"
    /\ is_transcribing = FALSE
    /\ segment_counter = 0
    /\ speaker_counter = 0
    /\ last_speech_time = NoTime
    /\ transcript_segments = <<>>
    /\ audio_recording = pyaudio_available
    /\ recording_active = FALSE
    /\ last_call = [op |-> "__init__", running |-> FALSE, raised |-> "none",
                    value |-> PyNone]
    /\ stopped_once = FALSE
    /\ delivered = "none"
    /\ cb_frame = IdleFrame
    /\ stop_frame = IdleFrame
    /\ on_transcription_callback = callback
    /\ tasks = <<>>
    /\ transcript_entries = <<>>
    /\ task_exceptions = {}
    /\ session_id = SessionId(0)
    /\ session_start = 0

\* __init__(on_transcription_callback=callback), at instant 0
Constructed(callback) == ConstructedWith(callback, PYAUDIO_AVAILABLE)

\* WorkingTranscriber.__init__
WorkingConstructed ==
    /\ working_recognizer = "None"
    /\ working_is_transcribing = FALSE
    /\ working_transcript_entries = <<>>
    /\ working_speaker_counter = 0
    /\ working_last_speech_time = NoTime
    /\ working_last_call = [op |-> "__init__", value |-> PyNone]
    /\ working_running = 0

\* TeamsTranscriptionBot.__init__, and an empty directory
BotConstructed ==
    /\ active_call = PyNone
    /\ transcriber = "None"
    /\ graph_token = "None"
    /\ reply = "none"
    /\ session_ids = <<>>
    /\ files = {}

\* MSALAuthClient.__init__ with the three environment variables set: no
\* call was made on self.app yet
MSALConstructed ==
    /\ token_cache = PyNone
    /\ app_calls = <<>>
    /\ get_token_result = [op |-> "__init__", silent |-> PyNone,
                           calls |-> <<>>, result |-> PyNone,
                           raised |-> "none",
                           message |-> <<>>, value |-> "None"]

\* AsyncStorageService after initialize(), on an empty container, and the
\* TranscriptService constructed on it
StorageConstructed ==
    /\ blobs = {}
    /\ utc_date = 1
    /\ storage_last_call = [op |-> "__init__", date |-> 1, value |-> PyNone]
    /\ stored_json = "None"

\* the instances of the other classes
OthersConstructed ==
    /\ WorkingConstructed
    /\ BotConstructed
    /\ MSALConstructed
    /\ StorageConstructed

\* TeamsMultilingualTranscriber(): on_transcription_callback defaults to None
Init == Constructed("None") /\ OthersConstructed

\* the same in a process where "import pyaudio" succeeded
InitAudio == ConstructedWith("None", TRUE) /\ OthersConstructed

\* TeamsMultilingualTranscriber(on_transcription_callback=callback), for
\* some coroutine function callback that stores the segments it is given
InitNotify ==
    /\ Constructed("callback")
    /\ OthersConstructed

----------------------------------------------------------------------------
(* Operations *)

\* the wall clock advances
Tick ==
    /\ \E t \in Instants : t > now /\ now' = t
    /\ UNCHANGED <<recognizer, is_transcribing,
                   segment_counter, speaker_counter, last_speech_time,
                   transcript_segments, audio_recording, recording_active,
                   last_call, stopped_once, delivered>>
    /\ UNCHANGED <<frames, notify, rest>>

\* a second start that discards the running session
StartWhileTranscribing_Restart ==
    /\ is_transcribing
    /\ segment_counter' = 0
    /\ speaker_counter' = 0
    /\ last_speech_time' = NoTime
    /\ transcript_segments' = <<>>
    /\ last_call' = Returned("start_transcription", PyNone)
    /\ UNCHANGED <<now, recognizer, is_transcribing, audio_recording,
                   recording_active, stopped_once, delivered>>
    /\ UNCHANGED <<frames, notify, rest>>

\* start_transcription when self.is_transcribing is already set
StartWhileTranscribing ==
    /\ is_transcribing
    /\ last_call' = Returned("start_transcription", PyNone)
    /\ UNCHANGED <<now, recognizer, is_transcribing,
                   segment_counter, speaker_counter, last_speech_time,
                   transcript_segments, audio_recording, recording_active,
                   stopped_once, delivered>>
    /\ UNCHANGED <<frames, notify, rest>>

\* _start_audio_recording: recording starts when enabled, and disables
\* itself when the audio device cannot be opened
StartAudioRecording ==
    \E device_ok \in BOOLEAN :
        IF audio_recording
        THEN /\ recording_active' = TRUE
             /\ audio_recording' = device_ok
        ELSE /\ device_ok
             /\ UNCHANGED <<audio_recording, recording_active>>

\* start_transcription: a recognizer is created and connected, audio
\* recording starts, and start_continuous_recognition() returns
StartTranscription ==
    /\ ~is_transcribing
    /\ recognizer' = "SpeechRecognizer"
    /\ StartAudioRecording
    /\ is_transcribing' = TRUE
    /\ last_call' = Returned("start_transcription", PyNone)
    /\ UNCHANGED <<now, segment_counter, speaker_counter, last_speech_time,
                   transcript_segments, stopped_once, delivered>>
    /\ UNCHANGED <<frames, notify, rest>>

\* start_transcription when start_continuous_recognition() raises
StartTranscriptionFails ==
    /\ ~is_transcribing
    /\ recognizer' = "SpeechRecognizer"
    /\ StartAudioRecording
    /\ last_call' = Raised("start_transcription", "RuntimeError")
    /\ UNCHANGED <<now, is_transcribing, segment_counter,
                   speaker_counter, last_speech_time, transcript_segments,
                   stopped_once, delivered>>
    /\ UNCHANGED <<frames, notify, rest>>

\* a stop that answers a summary whenever a recognizer exists
StopWhileNotTranscribing_Summary ==
    /\ ~is_transcribing \/ recognizer = "None"
    /\ last_call' = Returned("stop_transcription",
                             IF recognizer = "None"
                             THEN EmptyDict
                             ELSE SessionSummary(now))
    /\ UNCHANGED <<now, recognizer, is_transcribing,
                   segment_counter, speaker_counter, last_speech_time,
                   transcript_segments, audio_recording, recording_active,
                   stopped_once, delivered>>
    /\ UNCHANGED <<frames, notify, rest>>

\* stop_transcription when not transcribing or without a recognizer
StopWhileNotTranscribing ==
    /\ ~is_transcribing \/ recognizer = "None"
    /\ last_call' = Returned("stop_transcription", EmptyDict)
    /\ UNCHANGED <<now, recognizer, is_transcribing,
                   segment_counter, speaker_counter, last_speech_time,
                   transcript_segments, audio_recording, recording_active,
                   stopped_once, delivered>>
    /\ UNCHANGED <<frames, notify, rest>>

\* stop_transcription of a transcribing instance
StopTranscription ==
    /\ is_transcribing /\ recognizer # "None"
    /\ is_transcribing' = FALSE
    /\ recording_active' = IF audio_recording THEN FALSE ELSE recording_active
    /\ last_call' = Returned("stop_transcription", SessionSummary(now))
    /\ stopped_once' = TRUE
    /\ UNCHANGED <<now, recognizer, segment_counter, speaker_counter,
                   last_speech_time, transcript_segments, audio_recording,
                   delivered>>
    /\ UNCHANGED <<frames, notify, rest>>

\* the segment _on_recognized builds
Segment(evt, t, segment_id, speaker) ==
    [segment_id |-> segment_id,
     speaker_id |-> SpeakerId(speaker),
     text |-> Strip(evt.text),
     detected_language |-> DetectedLanguage(evt),
     start_time |-> IsoFormat(t),
     confidence |-> Confidence,
     duration_ms |-> evt.duration \div TicksPerMs,
     offset_ms |-> evt.offset \div TicksPerMs]

\* a counter that skips an index at each new speaker
NextSpeakerCounter_Skip(t) ==
    IF IsNewSpeaker(last_speech_time, t)
    THEN speaker_counter + 2
    ELSE speaker_counter

\* self.speaker_counter after _on_recognized accepted an event at instant t
NextSpeakerCounter(t) ==
    IF IsNewSpeaker(last_speech_time, t)
    THEN speaker_counter + 1
    ELSE speaker_counter

\* a store that revises the speaker of the segment stored before the new
\* one to the speaker of the new one
StoreSegment_Regroup(segments, segment) ==
    [i \in 1..(Len(segments) + 1) |->
        IF i > Len(segments)
        THEN segment
        ELSE IF i = Len(segments)
             THEN [segments[i] EXCEPT !.speaker_id = segment.speaker_id]
             ELSE segments[i]]

\* "self.transcript_segments.append(segment)"
StoreSegment(segments, segment) == Append(segments, segment)

\* the number of segments after which the model delivers no more speech
SegmentBound ==
    CASE on_transcription_callback = "None" -> MaxSegments
      [] on_transcription_callback = "callback" -> MaxNotifySegments
      [] OTHER -> MaxBotSegments

\* a segment counter that is not advanced
NextSegmentCounter_Stale == segment_counter

\* "self.segment_counter += 1"
NextSegmentCounter == segment_counter + 1

\* lines 183-184, "if self.on_transcription_callback:
\* asyncio.create_task(self.on_transcription_callback(segment))": the call
\* of the coroutine function only makes a coroutine object; create_task
\* queues it on the running event loop of the calling thread, and raises
\* RuntimeError ("no running event loop") when that thread has none, as on
\* the recognizer's own thread.  Nothing catches the exception.
Notify(segment) ==
    IF on_transcription_callback = "None"
    THEN /\ last_call' = Returned("_on_recognized", PyNone)
         /\ UNCHANGED tasks
    ELSE \E running_loop \in BOOLEAN :
            IF running_loop
            THEN /\ tasks' = Append(tasks, segment)
                 /\ last_call' = Returned("_on_recognized", PyNone)
            ELSE /\ last_call' = Raised("_on_recognized", "RuntimeError")
                 /\ UNCHANGED tasks

\* _on_recognized(evt) with t for current_time
OnRecognizedAt(evt, t) ==
    /\ IF Accepted(evt)
       THEN /\ Len(transcript_segments) < SegmentBound
            /\ speaker_counter' = NextSpeakerCounter(t)
            /\ last_speech_time' = t
            /\ segment_counter' = NextSegmentCounter
            /\ transcript_segments' =
                  StoreSegment(transcript_segments,
                               Segment(evt, t, segment_counter',
                                       speaker_counter'))
            /\ Notify(transcript_segments'[Len(transcript_segments')])
       ELSE /\ UNCHANGED <<segment_counter, speaker_counter,
                           last_speech_time, transcript_segments, tasks>>
            /\ last_call' = Returned("_on_recognized", PyNone)
    /\ delivered' =
          IF \E i \in 1..Len(evt.text) : evt.text[i] \notin Whitespace
          THEN "spoken"
          ELSE IF delivered = "none" THEN "blank" ELSE delivered
    /\ UNCHANGED <<now, recognizer, is_transcribing,
                   audio_recording, recording_active, stopped_once>>
    /\ UNCHANGED <<frames, on_transcription_callback, transcript_entries,
                   task_exceptions, rest>>

\* a handler that takes the event's own time for current_time
OnRecognized_EventTime(evt) == OnRecognizedAt(evt, EventTime(evt))

\* _on_recognized(evt), the whole handler: current_time = datetime.now(UTC)
OnRecognized(evt) == OnRecognizedAt(evt, now)

\* the recognizer delivers an event
Recognized == \E evt \in Events(now) : OnRecognized(evt)

\* whether the body of the callback can raise: the bot's
\* on_transcription_received only appends and logs, another callback may
\* fail
CallbackMayRaise ==
    IF on_transcription_callback = "on_transcription_received"
    THEN {FALSE}
    ELSE BOOLEAN

\* the event loop runs the oldest queued task, that is the body of the
\* callback with the segment the task was made for: the bot's
\* on_transcription_received appends it to self.transcript_entries; a
\* callback that raises leaves its exception in the task
RunCallbackTask ==
    /\ tasks # <<>>
    /\ \E raises \in CallbackMayRaise :
          IF raises
          THEN /\ task_exceptions' =
                     task_exceptions \cup {Head(tasks).segment_id}
               /\ UNCHANGED transcript_entries
          ELSE /\ transcript_entries' = Append(transcript_entries, Head(tasks))
               /\ UNCHANGED task_exceptions
    /\ tasks' = Tail(tasks)
    /\ UNCHANGED <<now, recognizer, is_transcribing, session,
                   audio_recording, recording_active, last_call,
                   stopped_once, delivered, on_transcription_callback>>
    /\ UNCHANGED <<frames, rest>>

Next ==
    \/ Tick
    \/ StartWhileTranscribing
    \/ StartTranscription
    \/ StartTranscriptionFails
    \/ StopWhileNotTranscribing
    \/ StopTranscription
    \/ Recognized

Spec == Init /\ [][Next]_vars

\* an instance with a callback: the calls made on it, the events delivered
\* to it and the tasks the event loop runs for it
NextNotify ==
    \/ Tick
    \/ StartTranscription
    \/ Recognized
    \/ RunCallbackTask

SpecNotify == InitNotify /\ [][NextNotify]_vars

\* the same operations on an instance that records audio
SpecAudio == InitAudio /\ [][Next]_vars

\* a call of start_transcription
StartCall ==
    StartWhileTranscribing \/ StartTranscription \/ StartTranscriptionFails

\* a call of stop_transcription
StopCall == StopWhileNotTranscribing \/ StopTranscription

----------------------------------------------------------------------------
(* WorkingTranscriber (working_transcriber.py): the same gap heuristic on  *)
(* time.time(), a list of transcript entries, and clear_transcript.        *)

\* no more than MaxWorkingEntries entries are held at a time
MaxWorkingEntries == 2

\* no more than MaxWorkingRecognizers recognizers are recognizing at a time
MaxWorkingRecognizers == 2

\* start_transcription: returns when already transcribing, else creates a
\* recognizer, connects the handlers and starts continuous recognition
WorkingStartTranscription ==
    /\ IF working_is_transcribing
       THEN UNCHANGED <<working_recognizer, working_is_transcribing,
                        working_running>>
       ELSE /\ working_running < MaxWorkingRecognizers
            /\ working_recognizer' = "SpeechRecognizer"
            /\ working_running' = working_running + 1
            /\ working_is_transcribing' = TRUE
    /\ working_last_call' = [op |-> "start_transcription", value |-> PyNone]
    /\ UNCHANGED <<working_transcript_entries, working_speaker_counter,
                   working_last_speech_time>>
    /\ UNCHANGED <<now, teams, bot, services>>

\* stop_transcription: returns when not transcribing or without a
\* recognizer, else stops and drops the recognizer
WorkingStopTranscription ==
    /\ IF ~working_is_transcribing \/ working_recognizer = "None"
       THEN UNCHANGED <<working_recognizer, working_is_transcribing,
                        working_running>>
       ELSE /\ working_running' = working_running - 1
            /\ working_is_transcribing' = FALSE
            /\ working_recognizer' = "None"
    /\ working_last_call' = [op |-> "stop_transcription", value |-> PyNone]
    /\ UNCHANGED <<working_transcript_entries, working_speaker_counter,
                   working_last_speech_time>>
    /\ UNCHANGED <<now, teams, bot, services>>

\* the result dict _on_recognized builds
WorkingResult(evt, t, speaker) ==
    [speaker_id |-> SpeakerId(speaker),
     text |-> Strip(evt.text),
     timestamp |-> IsoFormat(t),
     confidence |-> Confidence,
     offset |-> evt.offset,
     duration |-> evt.duration]

\* _on_recognized(evt): current_time = time.time()
WorkingOnRecognized(evt) ==
    /\ IF Accepted(evt)
       THEN /\ Len(working_transcript_entries) < MaxWorkingEntries
            /\ working_speaker_counter' =
                  IF IsNewSpeaker(working_last_speech_time, now)
                  THEN working_speaker_counter + 1
                  ELSE working_speaker_counter
            /\ working_last_speech_time' = now
            /\ working_transcript_entries' =
                  Append(working_transcript_entries,
                         WorkingResult(evt, now, working_speaker_counter'))
       ELSE UNCHANGED <<working_transcript_entries, working_speaker_counter,
                        working_last_speech_time>>
    /\ working_last_call' = [op |-> "_on_recognized", value |-> PyNone]
    /\ UNCHANGED <<working_recognizer, working_is_transcribing,
                   working_running>>
    /\ UNCHANGED <<now, teams, bot, services>>

\* the recognizer delivers an event to the WorkingTranscriber
WorkingRecognized == \E evt \in Events(now) : WorkingOnRecognized(evt)

\* _on_canceled and _on_session_stopped: "self.is_transcribing = False"
WorkingOnSessionStopped ==
    /\ working_recognizer # "None"
    /\ working_is_transcribing' = FALSE
    /\ working_last_call' = [op |-> "_on_session_stopped", value |-> PyNone]
    /\ UNCHANGED <<working_recognizer, working_transcript_entries,
                   working_speaker_counter, working_last_speech_time,
                   working_running>>
    /\ UNCHANGED <<now, teams, bot, services>>

\* get_transcript: a copy of the entries
WorkingGetTranscript ==
    /\ working_last_call' = [op |-> "get_transcript",
                             value |-> working_transcript_entries]
    /\ UNCHANGED <<working_recognizer, working_is_transcribing,
                   working_transcript_entries, working_speaker_counter,
                   working_last_speech_time, working_running>>
    /\ UNCHANGED <<now, teams, bot, services>>

\* clear_transcript: the entries are cleared and speaker_counter is set to
\* 0; last_speech_time is left as it is
WorkingClearTranscript ==
    /\ working_transcript_entries' = <<>>
    /\ working_speaker_counter' = 0
    /\ working_last_call' = [op |-> "clear_transcript", value |-> PyNone]
    /\ UNCHANGED <<working_recognizer, working_is_transcribing,
                   working_last_speech_time, working_running>>
    /\ UNCHANGED <<now, teams, bot, services>>

NextWorking ==
    \/ Tick
    \/ WorkingStartTranscription
    \/ WorkingStopTranscription
    \/ WorkingRecognized
    \/ WorkingOnSessionStopped
    \/ WorkingGetTranscript
    \/ WorkingClearTranscript

SpecWorking == Init /\ [][NextWorking]_vars

----------------------------------------------------------------------------
(* TeamsTranscriptionBot (src/src/bot/teams_bot.py): the commands /join,   *)
(* /leave and /status, the transcriber the bot constructs for each call,   *)
(* the events delivered to that transcriber and its callback.              *)

\* the bot constructs no more than MaxInstances transcribers
MaxInstances == 2

\* a message text is a sequence of pieces of text; these are the meeting
\* URLs given in /join commands, one in lower case and one with capitals
MeetingUrls ==
    { <<"https://teams.microsoft.com", "/l/meetup-join/19:meeting_",
        "abc123">>,
      <<"https://teams.microsoft.com", "/l/meetup-join/19:meeting_",
        "AbC123">> }

\* turn_context.activity.text of the messages the bot receives
Messages ==
    { <<"/join ">> \o url : url \in MeetingUrls }
    \cup { <<"/join ", "https://example.com", "/meet">>,
           <<"/leave">>, <<"/status">>, <<"hello">> }

\* str.lower(), piece by piece
LowerPiece(piece) ==
    CASE piece = "AbC123" -> "abc123"
      [] OTHER -> piece

Lower(text) == [i \in 1..Len(text) |-> LowerPiece(text[i])]

\* text.startswith(prefix) for a prefix that is one piece
StartsWith(text, prefix) == Len(text) >= 1 /\ text[1] = prefix

\* text.replace(old, "") for an old that is one piece
Remove(text, old) == SelectSeq(text, LAMBDA piece : piece # old)

\* the transcript_data save_transcript_files writes under a prefix, without
\* the segments themselves
TranscriptData(prefix) ==
    [prefix |-> prefix,
     session_id |-> session_id,
     start_time |-> IsoFormat(session_start),
     total_segments |-> Len(transcript_segments),
     total_speakers |-> speaker_counter]

\* save_transcript_files() with the default prefix: the .json and .txt
\* files of that prefix are created or overwritten
FilesAfterSave ==
    LET prefix == <<"teams_transcript_", session_id>>
    IN  {f \in files : f.prefix # prefix} \cup {TranscriptData(prefix)}

\* lines 68-73: TeamsMultilingualTranscriber(language='auto',
\* on_transcription_callback=self.on_transcription_received) is constructed
\* and start_transcription() is awaited on it; started tells whether
\* start_continuous_recognition() returned or raised
NewTranscriberStarted(started) ==
    /\ Len(session_ids) < MaxInstances
    /\ session_id' = SessionId(now)
    /\ session_start' = now
    /\ session_ids' = Append(session_ids, session_id')
    /\ on_transcription_callback' = "on_transcription_received"
    /\ segment_counter' = 0
    /\ speaker_counter' = 0
    /\ last_speech_time' = NoTime
    /\ transcript_segments' = <<>>
    /\ recognizer' = "SpeechRecognizer"
    /\ audio_recording' = PYAUDIO_AVAILABLE
    /\ recording_active' = PYAUDIO_AVAILABLE
    /\ is_transcribing' = started
    /\ last_call' = [op |-> "start_transcription", running |-> FALSE,
                     raised |-> IF started THEN "none" ELSE "RuntimeError",
                     value |-> PyNone]
    /\ stopped_once' = FALSE
    /\ delivered' = "none"

\* a bot that never finds itself in a call
InCall_Never == FALSE

\* "if self.active_call:"
InCall == active_call # PyNone

\* the call context of lines 54-58, and its call_id once
\* _join_teams_call_via_graph has set it
CallContext(meeting_url, call_id) ==
    [meeting_url |-> meeting_url,
     joined_at |-> IsoFormat(now),
     call_id |-> call_id]

\* an except branch that leaves the call context in place
CallAfterFailure_Kept(call) == call

\* the except branch of _handle_join_call: "self.active_call = None"
CallAfterFailure(call) == PyNone

\* _handle_join_call(turn_context, text)
HandleJoinCall(text) ==
    LET meeting_url == Strip(Remove(text, "/join "))
    IN
    IF InCall
    THEN /\ reply' = "Already in a call. Use /leave first."
         /\ UNCHANGED <<active_call, transcriber, graph_token, session_ids,
                        files, teams>>
    ELSE IF ~StartsWith(meeting_url, "https://teams.microsoft.com")
    THEN /\ reply' = "Invalid Teams meeting URL."
         /\ UNCHANGED <<active_call, transcriber, graph_token, session_ids,
                        files, teams>>
    ELSE \E raises \in {"nothing", "get_token", "start_transcription"} :
            /\ IF raises = "get_token"
               THEN UNCHANGED <<graph_token, session_ids, teams>>
               ELSE /\ graph_token' = "access_token"
                    /\ NewTranscriberStarted(raises = "nothing")
                    /\ UNCHANGED <<cb_frame, stop_frame, tasks,
                                   transcript_entries, task_exceptions>>
            /\ IF raises = "nothing"
               THEN /\ active_call' =
                          CallContext(meeting_url,
                                      <<"mock_call_id_", IsoFormat(now)>>)
                    /\ transcriber' = "TeamsMultilingualTranscriber"
                    /\ reply' = "Joined call and started transcription"
               ELSE /\ active_call' =
                          CallAfterFailure(
                              CallContext(meeting_url,
                                  IF raises = "get_token"
                                  THEN <<"None">>
                                  ELSE <<"mock_call_id_", IsoFormat(now)>>))
                    /\ transcriber' = "None"
                    /\ reply' = "Failed to join call"
            /\ UNCHANGED files

\* _handle_leave_call(turn_context): the transcriber is stopped and its
\* files are saved, which raises when they cannot be written
HandleLeaveCall ==
    IF active_call = PyNone
    THEN /\ reply' = "Not currently in a call."
         /\ UNCHANGED <<active_call, transcriber, graph_token, session_ids,
                        files, teams>>
    ELSE /\ IF transcriber # "None"
            THEN IF is_transcribing /\ recognizer # "None"
                 THEN /\ is_transcribing' = FALSE
                      /\ recording_active' =
                            IF audio_recording THEN FALSE ELSE recording_active
                      /\ last_call' = Returned("stop_transcription",
                                               SessionSummary(now))
                      /\ stopped_once' = TRUE
                 ELSE /\ last_call' = Returned("stop_transcription",
                                               EmptyDict)
                      /\ UNCHANGED <<is_transcribing, recording_active,
                                     stopped_once>>
            ELSE UNCHANGED <<is_transcribing, recording_active, last_call,
                             stopped_once>>
         /\ \E saved \in BOOLEAN :
               IF saved
               THEN /\ files' = IF transcriber # "None"
                                 THEN FilesAfterSave
                                 ELSE files
                    /\ transcriber' = "None"
                    /\ active_call' = PyNone
                    /\ transcript_entries' = <<>>
                    /\ reply' = "Left call. Transcript saved"
               ELSE /\ transcriber # "None"
                    /\ reply' = "Error leaving call"
                    /\ UNCHANGED <<files, transcriber, active_call,
                                   transcript_entries>>
         /\ UNCHANGED <<recognizer, segment_counter, speaker_counter,
                        last_speech_time, transcript_segments,
                        audio_recording, delivered, cb_frame, stop_frame,
                        on_transcription_callback, tasks, task_exceptions,
                        session_id, session_start, graph_token,
                        session_ids>>

\* _handle_status(turn_context)
HandleStatus ==
    /\ reply' = IF active_call # PyNone
                THEN "In call since"
                ELSE "Not in a call"
    /\ UNCHANGED <<active_call, transcriber, graph_token, session_ids,
                   files, teams>>

\* on_message_activity(turn_context): the text is lower-cased and the
\* command is dispatched on its first piece
OnMessageActivity(activity_text) ==
    LET text == Lower(activity_text)
    IN  /\ IF StartsWith(text, "/join ")
           THEN HandleJoinCall(text)
           ELSE IF StartsWith(text, "/leave")
           THEN HandleLeaveCall
           ELSE IF StartsWith(text, "/status")
           THEN HandleStatus
           ELSE /\ reply' = "Commands: /join <meeting_url>, /leave, /status"
                /\ UNCHANGED <<active_call, transcriber, graph_token,
                               session_ids, files, teams>>
        /\ UNCHANGED <<now, working, services>>

\* the bot receives a message
MessageReceived == \E activity_text \in Messages : OnMessageActivity(activity_text)

\* the events the recognizer of the bot's transcriber delivers at instant
\* t: speech in one language, without delay
BotEvents(t) ==
    {evt \in Events(t) : evt.lang = "es-ES" /\ evt.offset = OffsetOf(t)}

\* the recognizer of the bot's transcriber delivers an event
BotRecognized ==
    /\ recognizer # "None"
    /\ \E evt \in BotEvents(now) : OnRecognized(evt)

NextBot ==
    \/ Tick
    \/ MessageReceived
    \/ BotRecognized
    \/ RunCallbackTask

SpecBot == Init /\ [][NextBot]_vars

----------------------------------------------------------------------------
(* MSALAuthClient (src/src/auth/msal_client.py): get_token asks the msal   *)
(* application for a cached token and, without one, for a new one.         *)

\* get_token is called no more than MaxGetTokenCalls times
MaxGetTokenCalls == 4

\* self.scope
GraphScope == <<"https://graph.microsoft.com/.default">>

\* a result dict that carries a token
TokenResult(token) == [access_token |-> token, expires_in |-> 3600]

\* what acquire_token_silent returns: None, or the result in the cache
SilentResults == {PyNone, TokenResult("cached-token")}

\* the result dicts without a token: an error with and without its
\* description, and a dict with neither
ErrorResults ==
    { [error |-> "invalid_client",
       error_description |-> "Invalid client credentials"],
      [error |-> "invalid_client"],
      [correlation_id |-> "c1"] }

\* what acquire_token_for_client returns
ClientResults ==
    {TokenResult("test-token"), TokenResult("renewed-token")}
    \cup ErrorResults

\* a lookup whose result is never taken
NoResult_Always(result) == TRUE

\* "if not result"
NoResult(result) == result = PyNone

\* "access_token" in result
HasAccessToken(result) == "access_token" \in DOMAIN result

\* an error message that takes the error code first
ErrorMessage_Code(result) ==
    IF "error" \in DOMAIN result
    THEN result.error
    ELSE IF "error_description" \in DOMAIN result
         THEN result.error_description
         ELSE "Unknown error"

\* result.get("error_description", result.get("error", "Unknown error"))
ErrorMessage(result) ==
    IF "error_description" \in DOMAIN result
    THEN result.error_description
    ELSE IF "error" \in DOMAIN result
         THEN result.error
         ELSE "Unknown error"

\* self.app.acquire_token_silent(self.scope, account=None)
SilentCall ==
    [method |-> "acquire_token_silent", scopes |-> GraphScope,
     account |-> "None"]

\* self.app.acquire_token_for_client(scopes=self.scope)
ClientCall ==
    [method |-> "acquire_token_for_client", scopes |-> GraphScope,
     account |-> "None"]

\* the calls of one method among calls
CallsOf(calls, method) == SelectSeq(calls, LAMBDA c : c.method = method)

\* get_token(), when acquire_token_silent returns silent and
\* acquire_token_for_client, if it is called, returns fresh
GetToken(silent, fresh) ==
    LET acquire == NoResult(silent)
        calls == IF acquire THEN <<SilentCall, ClientCall>> ELSE <<SilentCall>>
        result == IF acquire THEN fresh ELSE silent
    IN  /\ Len(CallsOf(app_calls, "acquire_token_silent")) < MaxGetTokenCalls
        /\ app_calls' = app_calls \o calls
        /\ IF HasAccessToken(result)
           THEN /\ token_cache' = result
                /\ get_token_result' =
                      [op |-> "get_token", silent |-> silent,
                       calls |-> calls, result |-> result,
                       raised |-> "none", message |-> <<>>,
                       value |-> result.access_token]
           ELSE /\ UNCHANGED token_cache
                /\ get_token_result' =
                      [op |-> "get_token", silent |-> silent,
                       calls |-> calls, result |-> result,
                       raised |-> "Exception",
                       message |-> <<"Failed to get token: ",
                                     ErrorMessage(result)>>,
                       value |-> "None"]
        /\ UNCHANGED <<now, teams, working, bot, storage>>

\* a call of get_token
GetTokenCalled ==
    \E silent \in SilentResults, fresh \in ClientResults :
        GetToken(silent, fresh)

NextAuth == GetTokenCalled

SpecAuth == Init /\ [][NextAuth]_vars

----------------------------------------------------------------------------
(* AsyncStorageService and TranscriptService (src/src/api/services): the   *)
(* transcripts are blobs named by date, meeting, transcript and format.    *)

\* the calendar dates are 1..MaxDate
MaxDate == 2

\* the container holds no more than MaxBlobs blobs
MaxBlobs == 2

\* TranscriptFormat, in the order the enum is iterated
TranscriptFormats == <<"json", "md", "txt">>

\* the TranscriptContent values, the titles (None or a title), and the
\* identifiers the services are called with
Contents == {"content-1", "content-2"}
Titles == {"None", "title"}
TranscriptIds == {"transcript-1"}
MeetingIds == {"meeting-1"}

\* _generate_blob_name: f"{date_prefix}/{meeting_id}/{transcript_id}.{format}"
\* with date_prefix the date of datetime.utcnow()
GenerateBlobName(meeting_id, transcript_id, format) ==
    <<utc_date, meeting_id, transcript_id, format>>

\* the data store_transcript uploads: model_dump_json of the content, or
\* the content rendered as Markdown or as text
Serialize(content, format) ==
    CASE format = "json" -> <<"model_dump_json", content>>
      [] format = "md" -> <<"_convert_to_markdown", content>>
      [] OTHER -> <<"_convert_to_text", content>>

\* TranscriptContent.model_validate_json(content_data)
ModelValidateJson(data) == data[2]

\* Python values: a bool, and a TranscriptResponse
PyBool(b) == [type |-> "bool", bool |-> b]
TranscriptResponse(id, meeting_id, title, content, format) ==
    [type |-> "TranscriptResponse", id |-> id, meeting_id |-> meeting_id,
     title |-> title, content |-> content, format |-> format]

\* blob_client.upload_blob(data, metadata=blob_metadata, overwrite=True)
UploadBlob(container, name, data, title) ==
    {b \in container : b.name # name}
    \cup {[name |-> name, data |-> data, title |-> title]}

\* the container after store_transcript(transcript_id, meeting_id, content,
\* format, metadata={"title": title} if title else None)
StoreTranscript(container, transcript_id, meeting_id, content, format, title) ==
    UploadBlob(container,
               GenerateBlobName(meeting_id, transcript_id, format),
               Serialize(content, format), title)

\* whether store_transcript stays within the bound on the blobs
WithinBlobs(transcript_id, meeting_id, format) ==
    \/ Cardinality(blobs) < MaxBlobs
    \/ \E b \in blobs :
          b.name = GenerateBlobName(meeting_id, transcript_id, format)

\* the loop of retrieve_transcript over the formats still to try: the blob
\* of the format is looked up under today's name; a JSON blob is parsed and
\* returned, a blob of another format is skipped
RECURSIVE RetrieveFrom(_, _, _, _)
RetrieveFrom(container, formats, transcript_id, meeting_id) ==
    IF formats = <<>>
    THEN PyNone
    ELSE LET format == Head(formats)
             found == {b \in container :
                          b.name = GenerateBlobName(meeting_id, transcript_id,
                                                    format)}
         IN  IF found # {} /\ format = "json"
             THEN LET blob == CHOOSE b \in found : TRUE
                  IN  TranscriptResponse(transcript_id, meeting_id,
                                         blob.title,
                                         ModelValidateJson(blob.data), format)
             ELSE RetrieveFrom(container, Tail(formats), transcript_id,
                               meeting_id)

\* retrieve_transcript(transcript_id, meeting_id)
RetrieveTranscript(container, transcript_id, meeting_id) ==
    RetrieveFrom(container, TranscriptFormats, transcript_id, meeting_id)

\* the names delete_transcript tries to delete
NamesToDelete(transcript_id, meeting_id) ==
    {GenerateBlobName(meeting_id, transcript_id, TranscriptFormats[i]) :
        i \in 1..Len(TranscriptFormats)}

\* what a call returned, on the date it was made
StorageReturned(op, value) == [op |-> op, date |-> utc_date, value |-> value]

\* midnight UTC passes
DayPasses ==
    /\ utc_date < MaxDate
    /\ utc_date' = utc_date + 1
    /\ UNCHANGED <<blobs, storage_last_call, stored_json>>
    /\ UNCHANGED <<now, teams, working, bot, auth>>

\* AsyncStorageService.store_transcript
StoreTranscriptCalled ==
    \E transcript_id \in TranscriptIds, meeting_id \in MeetingIds,
       content \in Contents, title \in Titles,
       i \in 1..Len(TranscriptFormats) :
        LET format == TranscriptFormats[i]
        IN  /\ WithinBlobs(transcript_id, meeting_id, format)
            /\ blobs' = StoreTranscript(blobs, transcript_id, meeting_id,
                                        content, format, title)
            /\ stored_json' = IF format = "json" THEN content ELSE stored_json
            /\ storage_last_call' =
                  StorageReturned("store_transcript",
                      [type |-> "str",
                       url |-> GenerateBlobName(meeting_id, transcript_id,
                                                format)])
            /\ UNCHANGED utc_date
            /\ UNCHANGED <<now, teams, working, bot, auth>>

\* AsyncStorageService.retrieve_transcript
RetrieveTranscriptCalled ==
    \E transcript_id \in TranscriptIds, meeting_id \in MeetingIds :
        /\ storage_last_call' =
              StorageReturned("retrieve_transcript",
                  RetrieveTranscript(blobs, transcript_id, meeting_id))
        /\ UNCHANGED <<blobs, utc_date, stored_json>>
        /\ UNCHANGED <<now, teams, working, bot, auth>>

\* AsyncStorageService.delete_transcript, and TranscriptService's
\* delete_transcript that returns its result
DeleteTranscriptCalled ==
    \E transcript_id \in TranscriptIds, meeting_id \in MeetingIds :
        LET names == NamesToDelete(transcript_id, meeting_id)
        IN  /\ blobs' = {b \in blobs : b.name \notin names}
            /\ storage_last_call' =
                  StorageReturned("delete_transcript",
                      PyBool(\E b \in blobs : b.name \in names))
            /\ stored_json' = "None"
            /\ UNCHANGED utc_date
            /\ UNCHANGED <<now, teams, working, bot, auth>>

\* TranscriptService.get_transcript
GetTranscriptCalled ==
    \E transcript_id \in TranscriptIds, meeting_id \in MeetingIds :
        /\ storage_last_call' =
              StorageReturned("get_transcript",
                  RetrieveTranscript(blobs, transcript_id, meeting_id))
        /\ UNCHANGED <<blobs, utc_date, stored_json>>
        /\ UNCHANGED <<now, teams, working, bot, auth>>

\* the TranscriptUpdate values: each field is None or given
Updates ==
    [title : Titles, content : Contents \cup {"None"},
     format : {TranscriptFormats[i] : i \in 1..Len(TranscriptFormats)}
              \cup {"None"}]

\* "update_data.x if update_data.x is not None else existing.x"
Updated(given, existing) == IF given # "None" THEN given ELSE existing

\* TranscriptService.update_transcript(transcript_id, meeting_id, update_data)
UpdateTranscript(transcript_id, meeting_id, update_data) ==
    LET existing == RetrieveTranscript(blobs, transcript_id, meeting_id)
    IN  IF existing = PyNone
        THEN /\ storage_last_call' =
                   StorageReturned("update_transcript", PyNone)
             /\ UNCHANGED <<blobs, utc_date, stored_json>>
        ELSE LET updated_title == Updated(update_data.title, existing.title)
                 updated_content ==
                     Updated(update_data.content, existing.content)
                 updated_format == Updated(update_data.format, existing.format)
             IN  /\ WithinBlobs(transcript_id, meeting_id, updated_format)
                 /\ blobs' = StoreTranscript(blobs, transcript_id, meeting_id,
                                             updated_content, updated_format,
                                             updated_title)
                 /\ stored_json' = IF updated_format = "json"
                                   THEN updated_content
                                   ELSE stored_json
                 /\ storage_last_call' =
                       StorageReturned("update_transcript",
                           TranscriptResponse(transcript_id, meeting_id,
                                              updated_title, updated_content,
                                              updated_format))
                 /\ UNCHANGED utc_date

\* a call of update_transcript
UpdateTranscriptCalled ==
    \E transcript_id \in TranscriptIds, meeting_id \in MeetingIds,
       update_data \in Updates :
        /\ UpdateTranscript(transcript_id, meeting_id, update_data)
        /\ UNCHANGED <<now, teams, working, bot, auth>>

NextStorage ==
    \/ DayPasses
    \/ StoreTranscriptCalled
    \/ RetrieveTranscriptCalled
    \/ DeleteTranscriptCalled
    \/ GetTranscriptCalled
    \/ UpdateTranscriptCalled

SpecStorage == Init /\ [][NextStorage]_vars

----------------------------------------------------------------------------
(* The handlers statement by statement.  _on_recognized runs on the        *)
(* recognizer's thread and stop_transcription on the event loop's thread;  *)
(* neither takes a lock, so the statements of one interleave with the      *)
(* statements of the other.                                                *)

\* lines 147-159: the event is tested, the clock is read and the language
\* is taken from the event; a discarded event ends the call
CbBegin(evt) ==
    /\ cb_frame.pc = "idle"
    /\ IF Accepted(evt)
       THEN /\ Len(transcript_segments) < MaxThreadSegments
            /\ cb_frame' = [pc |-> "gap", evt |-> evt, current_time |-> now]
            /\ UNCHANGED last_call
       ELSE /\ cb_frame' = IdleFrame
            /\ last_call' = Returned("_on_recognized", PyNone)
    /\ delivered' =
          IF \E i \in 1..Len(evt.text) : evt.text[i] \notin Whitespace
          THEN "spoken"
          ELSE IF delivered = "none" THEN "blank" ELSE delivered
    /\ UNCHANGED <<now, recognizer, is_transcribing, session,
                   audio_recording, recording_active, stopped_once,
                   stop_frame>>
    /\ UNCHANGED <<notify, rest>>

\* lines 162-164: "if ...: self.speaker_counter += 1"
CbGap ==
    /\ cb_frame.pc = "gap"
    /\ speaker_counter' = NextSpeakerCounter(cb_frame.current_time)
    /\ cb_frame' = [cb_frame EXCEPT !.pc = "counters"]
    /\ UNCHANGED <<now, recognizer, is_transcribing, segment_counter,
                   last_speech_time, transcript_segments, audio_recording,
                   recording_active, last_call, stopped_once, delivered,
                   stop_frame>>
    /\ UNCHANGED <<notify, rest>>

\* lines 166-167: "self.last_speech_time = current_time.timestamp()" and
\* "self.segment_counter += 1" (the other thread reads neither)
CbCounters ==
    /\ cb_frame.pc = "counters"
    /\ last_speech_time' = cb_frame.current_time
    /\ segment_counter' = NextSegmentCounter
    /\ cb_frame' = [cb_frame EXCEPT !.pc = "append"]
    /\ UNCHANGED <<now, recognizer, is_transcribing, speaker_counter,
                   transcript_segments, audio_recording, recording_active,
                   last_call, stopped_once, delivered, stop_frame>>
    /\ UNCHANGED <<notify, rest>>

\* lines 169-184: the segment is built and appended, and the call returns
CbAppend ==
    /\ cb_frame.pc = "append"
    /\ transcript_segments' =
          StoreSegment(transcript_segments,
                       Segment(cb_frame.evt, cb_frame.current_time,
                               segment_counter, speaker_counter))
    /\ Notify(transcript_segments'[Len(transcript_segments')])
    /\ cb_frame' = IdleFrame
    /\ UNCHANGED <<now, recognizer, is_transcribing, segment_counter,
                   speaker_counter, last_speech_time, audio_recording,
                   recording_active, stopped_once, delivered, stop_frame>>
    /\ UNCHANGED <<on_transcription_callback, transcript_entries,
                   task_exceptions, rest>>

\* lines 119-127 on a transcribing instance: the recognizer is stopped,
\* is_transcribing is cleared and audio recording is stopped
StopBegin ==
    /\ stop_frame.pc = "idle"
    /\ is_transcribing /\ recognizer # "None"
    /\ is_transcribing' = FALSE
    /\ recording_active' = IF audio_recording THEN FALSE ELSE recording_active
    /\ stop_frame' = [pc |-> "total_segments"]
    /\ UNCHANGED <<now, recognizer, session, audio_recording, last_call,
                   stopped_once, delivered, cb_frame>>
    /\ UNCHANGED <<notify, rest>>

\* lines 130-134: "end_time" and "total_segments" of the summary
StopTotalSegments ==
    /\ stop_frame.pc = "total_segments"
    /\ stop_frame' = [pc |-> "total_speakers", end_time |-> now,
                      total_segments |-> Len(transcript_segments)]
    /\ UNCHANGED <<now, recognizer, is_transcribing, session,
                   audio_recording, recording_active, last_call,
                   stopped_once, delivered, cb_frame>>
    /\ UNCHANGED <<notify, rest>>

\* line 135: "total_speakers" of the summary
StopTotalSpeakers ==
    /\ stop_frame.pc = "total_speakers"
    /\ stop_frame' = [pc |-> "languages_detected",
                      end_time |-> stop_frame.end_time,
                      total_segments |-> stop_frame.total_segments,
                      total_speakers |-> speaker_counter]
    /\ UNCHANGED <<now, recognizer, is_transcribing, session,
                   audio_recording, recording_active, last_call,
                   stopped_once, delivered, cb_frame>>
    /\ UNCHANGED <<notify, rest>>

\* lines 136-143: "languages_detected" and "segments" (the list itself) of
\* the summary, which is returned
StopReturn ==
    /\ stop_frame.pc = "languages_detected"
    /\ last_call' =
          [Returned("stop_transcription",
                    SummaryDict(stop_frame.end_time,
                                stop_frame.total_segments,
                                stop_frame.total_speakers))
             EXCEPT !.running = TRUE]
    /\ stopped_once' = TRUE
    /\ stop_frame' = IdleFrame
    /\ UNCHANGED <<now, recognizer, is_transcribing, session,
                   audio_recording, recording_active, delivered, cb_frame>>
    /\ UNCHANGED <<notify, rest>>

\* start_transcription, run by the event loop between two other coroutines
LoopStartTranscription == stop_frame.pc = "idle" /\ StartTranscription

\* the recognizer's thread delivers an event
CbRecognized == \E evt \in Events(now) : CbBegin(evt)

NextThreads ==
    \/ Tick
    \/ LoopStartTranscription
    \/ CbRecognized
    \/ CbGap
    \/ CbCounters
    \/ CbAppend
    \/ StopBegin
    \/ StopTotalSegments
    \/ StopTotalSpeakers
    \/ StopReturn

SpecThreads == Init /\ [][NextThreads]_vars

----------------------------------------------------------------------------
(* Properties *)

\* the instant stamped on the i-th stored segment, and its speaker index
SegTime(i) == transcript_segments[i].start_time[2]
SegSpeaker(i) == transcript_segments[i].speaker_id[2]

\* the text is empty or holds whitespace only
BlankText(text) == \A i \in 1..Len(text) : text[i] \in {" ", "\t", "\n"}

\* the last call was a stop_transcription that returned a summary
SummaryReturned ==
    /\ last_call.op = "stop_transcription"
    /\ last_call.raised = "none"
    /\ ~last_call.value.empty

\* C1: every step appends at most one segment, and in every reachable state
\* the stored segment_ids are exactly 1, 2, ..., N in list order, N being
\* both the number of stored segments and segment_counter.
C1_SegmentIdsContiguous ==
    /\ [](/\ segment_counter = Len(transcript_segments)
          /\ \A i \in 1..Len(transcript_segments) :
                transcript_segments[i].segment_id = i)
    /\ [][Len(transcript_segments') \in
            {Len(transcript_segments), Len(transcript_segments) + 1}]_vars

\* C1 witness: three events were accepted and the third got segment_id 3
C1_Witness ==
    /\ Len(transcript_segments) = 3
    /\ transcript_segments[3].segment_id = 3
    /\ last_call.op = "_on_recognized"

C3_BlankTextIsNoOp ==
    /\ [][session' # session =>
             \A evt \in Events(now) :
                ~(BlankText(evt.text) /\ OnRecognized(evt))]_vars
    /\ []((SummaryReturned /\ delivered # "spoken") =>
             /\ last_call.value.total_segments = 0
             /\ last_call.value.total_speakers = 0)

\* C3 witness: a session that received blank events only was stopped and
\* reported no segment and no speaker
C3_Witness ==
    /\ SummaryReturned
    /\ delivered = "blank"
    /\ last_call.value.total_segments = 0
    /\ last_call.value.total_speakers = 0

\* C4 (as claimed): an event delivered after stop_transcription has returned
\* its summary (and before any restart) fails with SessionClosed and leaves
\* the session unchanged.
C4_ClosedSessionRejectsIngest ==
    [][(stopped_once /\ ~is_transcribing /\ Recognized) =>
          (last_call'.raised = "SessionClosed" /\ UNCHANGED session)]_vars

\* C5 (as claimed): once stop_transcription has returned a summary, the
\* instance is never transcribing again.
C5_NoRestartAfterStop == stopped_once => ~is_transcribing

\* C6 (as claimed): start_transcription called while transcribing raises
\* AlreadyRunning.
C6_StartWhileRunningRaises ==
    (last_call.op = "start_transcription" /\ last_call.running) =>
        last_call.raised = "AlreadyRunning"

\* C6 (amended): start_transcription called while transcribing returns None
\* without raising, and changes nothing of the instance.
C6_StartWhileRunningIsNoOp ==
    [][(is_transcribing /\ StartCall) =>
          /\ last_call'.op = "start_transcription"
          /\ last_call'.raised = "none"
          /\ last_call'.value = PyNone
          /\ UNCHANGED <<recognizer, is_transcribing, session,
                         audio_recording, recording_active>>]_vars

\* C6 witness: start_transcription was called on a transcribing instance
\* that holds segments
C6_Witness ==
    /\ last_call.op = "start_transcription"
    /\ last_call.running
    /\ is_transcribing
    /\ Len(transcript_segments) > 0

\* C7 (as claimed): stop_transcription called while not transcribing raises
\* NotRunning.
C7_StopWhileStoppedRaises ==
    (last_call.op = "stop_transcription" /\ ~last_call.running) =>
        last_call.raised = "NotRunning"

\* C7 (amended): stop_transcription returns a summary only when called on a
\* transcribing instance, which it leaves not transcribing; called on an
\* instance that is not transcribing it returns the empty dict without
\* raising; in both cases the stored segments are unchanged.
C7_StopSucceedsOncePerStart ==
    [][StopCall =>
          /\ last_call'.op = "stop_transcription"
          /\ last_call'.raised = "none"
          /\ last_call'.value.empty = ~is_transcribing
          /\ ~is_transcribing'
          /\ UNCHANGED session]_vars

\* C7 witness: a second stop_transcription on a stopped session that holds
\* segments returned the empty dict
C7_Witness ==
    /\ last_call.op = "stop_transcription"
    /\ ~last_call.running
    /\ last_call.value = EmptyDict
    /\ stopped_once
    /\ Len(transcript_segments) > 0

\* C8: the summary stop_transcription returns has total_segments equal to
\* the number of stored segments and total_speakers equal to
\* speaker_counter.
C8_SummaryTotals ==
    SummaryReturned =>
        /\ last_call.value.total_segments = Len(transcript_segments)
        /\ last_call.value.total_speakers = speaker_counter
        /\ last_call.value.segments = transcript_segments

\* C8 witness: a summary of three segments by two speakers
C8_Witness ==
    /\ SummaryReturned
    /\ last_call.value.total_segments = 3
    /\ last_call.value.total_speakers = 2

\* C9 (as claimed): last_speech_time is the own time of the last accepted
\* event (the time its offset stands for).
C9_LastSpeechTimeIsEventTime ==
    Len(transcript_segments) > 0 =>
        last_speech_time * 1000 =
            transcript_segments[Len(transcript_segments)].offset_ms

\* C9 (amended): a step that stores a segment sets last_speech_time to the
\* instant at which the handler runs, stamps that instant on the segment,
\* and takes a new speaker exactly when that instant is more than 3 seconds
\* after the previous last_speech_time (or there is none).
C9_LastSpeechTimeIsProcessingTime ==
    [][Len(transcript_segments') > Len(transcript_segments) =>
          /\ last_speech_time' = now
          /\ transcript_segments'[Len(transcript_segments')].start_time
                = IsoFormat(now)
          /\ speaker_counter' =
                IF last_speech_time = NoTime \/ now - last_speech_time > 3
                THEN speaker_counter + 1
                ELSE speaker_counter]_vars

\* C9 witness: two events whose own times are 3 seconds apart were handled
\* 4 seconds apart and got different speakers
C9_Witness ==
    /\ Len(transcript_segments) >= 2
    /\ transcript_segments[2].offset_ms - transcript_segments[1].offset_ms
          = 3000
    /\ SegTime(2) - SegTime(1) = 4
    /\ SegSpeaker(2) = SegSpeaker(1) + 1

\* C10 (as claimed): ingests are atomic with respect to stop.  Whenever no
\* ingest is in progress the stored segment_ids are 1..N without repetition
\* and speaker_counter is the speaker index of the last segment; and a
\* summary stop_transcription returns counts whole ingests only: its
\* total_speakers is the speaker index of the last of its total_segments
\* segments (0 when it counts no segment).
C10_IngestAtomicWithStop ==
    /\ cb_frame.pc = "idle" =>
          /\ \A i \in 1..Len(transcript_segments) :
                transcript_segments[i].segment_id = i
          /\ speaker_counter =
                IF transcript_segments = <<>>
                THEN 0
                ELSE SegSpeaker(Len(transcript_segments))
    /\ SummaryReturned =>
          last_call.value.total_speakers =
             IF last_call.value.total_segments = 0
             THEN 0
             ELSE last_call.value.segments[
                     last_call.value.total_segments].speaker_id[2]

\* C11 (as claimed): a failure of the notification of the callback never
\* propagates out of the ingestion handler: every call of _on_recognized
\* returns normally, whatever happened while the callback was scheduled.
C11_NotifyFailureContained ==
    last_call.op = "_on_recognized" => last_call.raised = "none"

\* the number of times the i-th stored segment was handed to the callback:
\* tasks queued for it, runs of the callback that stored it and runs of the
\* callback that raised
TimesNotified(i) ==
    Cardinality({j \in 1..Len(tasks) : tasks[j] = transcript_segments[i]})
    + Cardinality({j \in 1..Len(transcript_entries) :
                     transcript_entries[j] = transcript_segments[i]})
    + (IF i \in task_exceptions THEN 1 ELSE 0)

\* C12 (as claimed): every stored segment of an instance that has a callback
\* is handed to the callback exactly once: a task is queued for it when it
\* is stored, and the task runs the callback once.
C12_EverySegmentNotifiedOnce ==
    on_transcription_callback # "None" =>
        \A i \in 1..Len(transcript_segments) : TimesNotified(i) = 1

\* C13 (as claimed): no step decrements or resets the speaker_counter of a
\* transcriber.
C13_SpeakerCounterNeverDecreases ==
    [][/\ speaker_counter' >= speaker_counter
       /\ working_speaker_counter' >= working_speaker_counter]_vars

\* C14 (as claimed): every stored segment and every transcript entry is
\* labelled Speaker_n with n >= 1.
C14_SpeakerIndexAtLeastOne ==
    /\ \A i \in 1..Len(transcript_segments) : SegSpeaker(i) >= 1
    /\ \A i \in 1..Len(working_transcript_entries) :
          working_transcript_entries[i].speaker_id[2] >= 1

\* C15: the segment list is append-only.  Every step keeps every stored
\* segment, with all its fields, at its position in the list: the list
\* before the step is a prefix of the list after it.
C15_SegmentsAppendOnly ==
    [][/\ Len(transcript_segments') >= Len(transcript_segments)
       /\ \A i \in 1..Len(transcript_segments) :
             transcript_segments'[i] = transcript_segments[i]]_vars

\* C15 witness: after a segment of Speaker_1 was stored, a segment of a
\* later speaker was stored 1 second before a third one, a summary was
\* returned, and the first two segments are as they were stored
C15_Witness ==
    /\ stopped_once
    /\ Len(transcript_segments) = 3
    /\ SegSpeaker(1) = 1 /\ SegSpeaker(2) = 2 /\ SegSpeaker(3) = 2
    /\ SegTime(1) = 0 /\ SegTime(2) = 4 /\ SegTime(3) = 5

\* C16: the languages_detected of a returned summary is exactly the set of
\* the detected_language values of the summary's segments, and the
\* detected_language of a stored segment is the language of its event, or
\* "unknown" when the event carries none.
C16_LanguagesDetectedIsDistinctSet ==
    /\ [](SummaryReturned =>
             /\ last_call.value.languages_detected
                   \subseteq {"es-ES", "de-DE", "en-US", "unknown"}
             /\ \A lang \in {"es-ES", "de-DE", "en-US", "unknown"} :
                   lang \in last_call.value.languages_detected
                   <=> \E i \in 1..Len(last_call.value.segments) :
                          last_call.value.segments[i].detected_language
                             = lang)
    /\ [][Len(transcript_segments') > Len(transcript_segments) =>
             \A evt \in Events(now) :
                (Accepted(evt) /\ OnRecognized(evt)) =>
                   transcript_segments'[Len(transcript_segments')]
                         .detected_language
                      = IF evt.lang = "None" THEN "unknown" ELSE evt.lang]_vars

\* C16 witness: segments tagged es-ES, de-DE, es-ES, all of Speaker_1, were
\* summarised with languages_detected = {es-ES, de-DE}
C16_Witness ==
    /\ SummaryReturned
    /\ Len(last_call.value.segments) = 3
    /\ last_call.value.segments[1].detected_language = "es-ES"
    /\ last_call.value.segments[2].detected_language = "de-DE"
    /\ last_call.value.segments[3].detected_language = "es-ES"
    /\ \A i \in 1..3 : last_call.value.segments[i].speaker_id[2] = 1
    /\ last_call.value.languages_detected = {"es-ES", "de-DE"}

\* C17 (as claimed): as long as start_transcription has not been called (no
\* recognizer was ever created), no segment is stored and the counters keep
\* their initial values, and a delivery of speech has failed with
\* NotRunning.
C17_IngestBeforeStartRejected ==
    recognizer = "None" =>
        /\ transcript_segments = <<>>
        /\ segment_counter = 0
        /\ speaker_counter = 0
        /\ last_speech_time = NoTime
        /\ (last_call.op = "_on_recognized" /\ delivered = "spoken") =>
               last_call.raised = "NotRunning"

\* C18 (as claimed): the transcribers the bot constructs have pairwise
\* different session_ids (and so different default file prefixes).
C18_SessionIdsUnique ==
    \A i, j \in 1..Len(session_ids) :
        i # j => session_ids[i] # session_ids[j]

\* C19 (as claimed): a "/join <url>" with a Teams meeting URL, received while
\* the bot is in no call, leaves the bot in a call whose meeting_url is the
\* URL given in the command, holding a transcriber on which
\* start_transcription was called and returned.
C19_JoinPutsBotInCall ==
    [][\A url \in MeetingUrls :
          (active_call = PyNone /\ OnMessageActivity(<<"/join ">> \o url)) =>
             /\ active_call' # PyNone
             /\ active_call'.meeting_url = url
             /\ transcriber' # "None"
             /\ last_call'.op = "start_transcription"
             /\ last_call'.raised = "none"
             /\ is_transcribing']_vars

\* C20 (as claimed): a "/leave" received while the bot is in a call leaves
\* active_call None and transcript_entries empty, and a reply was sent.
C20_LeaveClearsCall ==
    [][(active_call # PyNone /\ OnMessageActivity(<<"/leave">>)) =>
          /\ active_call' = PyNone
          /\ transcript_entries' = <<>>
          /\ reply' # "none"]_vars

\* a call of get_token has returned or raised
GetTokenReturned == get_token_result.op = "get_token"

\* C21: get_token consults the cache first: acquire_token_silent is the
\* first call it makes on the application; when that returns a result with
\* an access token, get_token returns that token and does not call
\* acquire_token_for_client; acquire_token_for_client is called exactly when
\* the lookup returned nothing, once, and with the Graph default scope
C21_CacheConsultedFirst ==
    GetTokenReturned =>
        LET r == get_token_result
            acquired == CallsOf(r.calls, "acquire_token_for_client")
        IN  /\ Len(app_calls) >= Len(r.calls)
            /\ SubSeq(app_calls, Len(app_calls) - Len(r.calls) + 1,
                      Len(app_calls)) = r.calls
            /\ r.calls # <<>>
            /\ r.calls[1] = SilentCall
            /\ Len(CallsOf(r.calls, "acquire_token_silent")) = 1
            /\ HasAccessToken(r.silent) =>
                  /\ r.raised = "none"
                  /\ r.value = r.silent.access_token
                  /\ acquired = <<>>
            /\ (acquired # <<>>) <=> (r.silent = PyNone)
            /\ Len(acquired) <= 1
            /\ \A i \in 1..Len(acquired) :
                  acquired[i].scopes = <<"https://graph.microsoft.com/.default">>

\* the cached token was returned by a client that had acquired a token before
C21_Witness ==
    /\ GetTokenReturned
    /\ get_token_result.value = "cached-token"
    /\ get_token_result.calls = <<SilentCall>>
    /\ CallsOf(app_calls, "acquire_token_for_client") # <<>>

\* C22: get_token returns a token exactly when the result of the
\* acquisition contains an access token, and then the result is cached;
\* when the result carries an error, get_token raises "Failed to get token: "
\* followed by the error's description (by the error code when there is no
\* description), and a get_token that raises leaves _token_cache unchanged
C22_ErrorRaisesAndKeepsCache ==
    /\ [](GetTokenReturned =>
            LET r == get_token_result
            IN  /\ (r.raised = "none") <=> ("access_token" \in DOMAIN r.result)
                /\ r.raised = "none" =>
                      /\ r.value = r.result.access_token
                      /\ token_cache = r.result
                /\ "error" \in DOMAIN r.result =>
                      /\ r.raised = "Exception"
                      /\ r.message =
                            <<"Failed to get token: ",
                              IF "error_description" \in DOMAIN r.result
                              THEN r.result.error_description
                              ELSE r.result.error>>)
    /\ [][get_token_result'.raised # "none" /\ app_calls' # app_calls
            => token_cache' = token_cache]_vars

\* an acquisition failed with a description while a token was cached
C22_Witness ==
    /\ GetTokenReturned
    /\ get_token_result.raised = "Exception"
    /\ get_token_result.message =
          <<"Failed to get token: ", "Invalid client credentials">>
    /\ token_cache = TokenResult("test-token")

\* C23: the bot is in at most one call: a "/join" received while
\* active_call is set is answered "Already in a call. Use /leave first." and
\* changes nothing of the bot or of its transcriber: active_call,
\* transcriber, graph_token and transcript_entries keep their values and no
\* other transcriber is constructed or started
C23_JoinWhileInCallRejected ==
    [][active_call # PyNone =>
          \A activity_text \in Messages :
              (/\ StartsWith(Lower(activity_text), "/join ")
               /\ OnMessageActivity(activity_text))
              => /\ reply' = "Already in a call. Use /leave first."
                 /\ UNCHANGED <<active_call, transcriber, graph_token,
                                transcript_entries, session_ids, teams>>]_vars

\* a "/join" was rejected while the bot was in a call
C23_Witness ==
    /\ reply = "Already in a call. Use /leave first."
    /\ active_call # PyNone
    /\ transcriber = "TeamsMultilingualTranscriber"
    /\ Len(session_ids) = 1

\* C24: a failed join is rolled back: after a "/join" whose token
\* acquisition or whose start of the transcriber raised, the failure message
\* was sent and active_call and transcriber are None, and no message
\* received in that state is answered "Already in a call": the next "/join"
\* is accepted
C24_FailedJoinRolledBack ==
    /\ [](reply = "Failed to join call" =>
             active_call = PyNone /\ transcriber = "None")
    /\ [][reply = "Failed to join call" =>
             reply' # "Already in a call. Use /leave first."]_vars

\* the bot joined a call after a join that failed in start_transcription:
\* two transcribers were constructed and no call was ever left
C24_Witness ==
    /\ reply = "Joined call and started transcription"
    /\ active_call # PyNone
    /\ Len(session_ids) = 2
    /\ files = {}

\* C25: when update_transcript has returned a response, a get_transcript
\* of the same transcript that follows it on the same date returns the
\* content and the format of that response
C25_GetAfterUpdateReturnsUpdate ==
    [][(/\ storage_last_call.op = "update_transcript"
        /\ storage_last_call.value # PyNone
        /\ storage_last_call.date = utc_date
        /\ storage_last_call'.op = "get_transcript")
       => /\ storage_last_call'.value # PyNone
          /\ storage_last_call'.value.content = storage_last_call.value.content
          /\ storage_last_call'.value.format = storage_last_call.value.format
      ]_vars

\* C26: from a store_transcript in JSON format until the next
\* delete_transcript, every retrieve_transcript returns the content last
\* stored in JSON format and the delete_transcript returns True, whatever
\* the date of the call
C26_StoredUntilDeleted ==
    [][stored_json # "None" /\ storage_last_call' # storage_last_call =>
          /\ storage_last_call'.op = "retrieve_transcript" =>
                /\ storage_last_call'.value # PyNone
                /\ storage_last_call'.value.content = stored_json
          /\ storage_last_call'.op = "delete_transcript" =>
                storage_last_call'.value = PyBool(TRUE)
      ]_vars

\* C27: the summary stop_transcription returned stays consistent: after the
\* step that follows the return, its total_segments is still the length of
\* its "segments", which is the instance's own list, and its
\* languages_detected are still the languages of that list
C27_SummaryIsStableSnapshot ==
    [][(/\ last_call.op = "stop_transcription"
        /\ ~last_call.value.empty)
       => /\ last_call.value.total_segments = Len(transcript_segments')
          /\ last_call.value.languages_detected =
                LanguagesDetected(transcript_segments')
      ]_vars

C29_RecordingOnlyWhileTranscribing ==
    ~is_transcribing => ~recording_active

\* C30: a WorkingTranscriber never has more than one recognizer that was
\* started and not stopped
C30_AtMostOneRecognizerRunning ==
    working_running <= 1

====
